---- MODULE Spec2Model ----
(***************************************************************************)
(* Model of the frame orchestrator                                         *)
(*   src/src/Frontend/Renderers/GameRenderer/Renderer.ts                   *)
(* The singleton lifecycle (initialize / destroy), the animation loop that *)
(* the host scheduler drives (requestAnimationFrame / cancelAnimation-     *)
(* Frame), and the per-frame draw pipeline with its queue / flush          *)
(* protocol.  JavaScript is single-threaded: at most one loop iteration    *)
(* executes at a time (cur), and the only code that can run while it       *)
(* executes is code called back from a sub-component of the draw phase.    *)
(***************************************************************************)
EXTENDS Integers, Sequences, FiniteSets, TLC

\* ---------------------------------------------------------------- bounds
MaxInst == 2        \* instances created by initialize() in one behaviour
MaxFrame == 3       \* loop iterations run in one behaviour, all objects together
MaxCmds == 2        \* primitive queue() commands issued in one frame
MaxClock == 1       \* distinct values Date.now() returns, less one
MaxLocations == 1   \* locations in a scene snapshot
MaxChunks == 1      \* chunks in a scene snapshot
MaxDebugFrame == 241 \* frame counts debug() is evaluated on
MaxInterval == 5    \* explicit intervals debug() is called with

\* ------------------------------------------------------------- constants
\* Line 193: debug(interval = 120)
DefaultInterval == 120

Insts == 1..MaxInst
NoInst == 0         \* Renderer.instance = null; also "nothing is executing"
Undefined == 0      \* a field not yet assigned / an argument not passed

Batchers == {"line", "planet", "circle", "rect", "text", "sprite"}
NoBatcher == "none"

EmptyQueues == [b \in Batchers |-> << >>]
EmptySurfaces == [s \in {"gl", "overlay"} |-> << >>]
NoSnapshot == [locations |-> 0, chunks |-> 0]

\* The part of the input space one behaviour explores: one object drawing
\* scenes that queue commands, at one instant, or several objects drawing
\* empty scenes that queue nothing, as time passes.
Scenarios ==
  { [name |-> "frame", insts |-> 1, cmds |-> MaxCmds, clock |-> 0,
     locations |-> MaxLocations, chunks |-> MaxChunks],
    [name |-> "lifecycle", insts |-> MaxInst, cmds |-> 0, clock |-> MaxClock,
     locations |-> 0, chunks |-> 0] }

VARIABLES
  scenario,        \* the explored part of the input space, fixed by Init
  instance,        \* static Renderer.instance (NoInst = null)
  created,         \* number of Renderer objects constructed so far
  frameCount,      \* frameCount of each object
  now,             \* now of each object
  frameRequestId,  \* frameRequestId of each object (Undefined before line 142)
  nextRequestId,   \* host scheduler: the id the next requestAnimationFrame returns
  scheduled,       \* host scheduler: pending callbacks, [id, inst]
  cur,             \* the object whose loop() is executing (NoInst = none)
  phase,           \* position of the executing handler
  step,            \* index in DrawOrder of the next statement of draw()
  inInit,          \* the executing loop() was called from the constructor
  snapshot,        \* draw(): { locations, chunks } pulled in this draw phase
  pluginReturned,  \* draw(): getPluginManager() returned a plugin manager
  queue,           \* pending commands of each object's batchers
  surface,         \* what has been drawn on the gl and overlay surfaces
  trace,           \* statements of draw() executed in the current draw phase
  hookCalls,       \* contexts drawAllRunningPlugins was called with in this phase
  planetNow,       \* timestamp passed to queuePlanets in this phase
  destroyed,       \* objects that destroy() was called on while installed
  faulted,         \* objects whose loop() was left by an exception
  reinitialized,   \* initialize() was called while an object was installed
  dbgFrame,        \* debug(): frame count of the object it is called on
  dbgResult        \* debug(): [interval, value] of the last call

frameVars == << snapshot, pluginReturned, trace, hookCalls, planetNow >>
dbgVars == << dbgFrame, dbgResult >>
vars == << scenario, instance, created, frameCount, now, frameRequestId,
           nextRequestId, scheduled, cur, phase, step, inInit, snapshot,
           pluginReturned, queue, surface, trace, hookCalls, planetNow,
           destroyed, faulted, reinitialized, dbgFrame, dbgResult >>

\* ------------------------------------------------------------ draw phase
\* draw() with the circle and rect flushes exchanged.
DrawOrderRectFirst ==
  << "setProjectionMatrix", "overlayClear", "glClear",
     "getLocationsAndChunks", "drawChunks",
     "queueBorders", "queueSelectedRangeRing", "queueSelectedRect",
     "queueHoveringRect", "queueMousePath", "drawMiner",
     "queueVoyages", "queueWormholes", "queuePlanets",
     "lineFlush", "planetFlush", "rectFlush", "circleFlush", "textFlush",
     "spriteFlush", "getPluginManager", "drawAllRunningPlugins" >>

\* draw() with the primary context cleared after the background is drawn.
DrawOrderLateClear ==
  << "setProjectionMatrix", "overlayClear",
     "getLocationsAndChunks", "drawChunks", "glClear",
     "queueBorders", "queueSelectedRangeRing", "queueSelectedRect",
     "queueHoveringRect", "queueMousePath", "drawMiner",
     "queueVoyages", "queueWormholes", "queuePlanets",
     "lineFlush", "planetFlush", "circleFlush", "rectFlush", "textFlush",
     "spriteFlush", "getPluginManager", "drawAllRunningPlugins" >>

\* The statements of draw(), lines 152-189, in program order.
DrawOrder ==
  << "setProjectionMatrix", "overlayClear", "glClear",
     "getLocationsAndChunks", "drawChunks",
     "queueBorders", "queueSelectedRangeRing", "queueSelectedRect",
     "queueHoveringRect", "queueMousePath", "drawMiner",
     "queueVoyages", "queueWormholes", "queuePlanets",
     "lineFlush", "planetFlush", "circleFlush", "rectFlush", "textFlush",
     "spriteFlush", "getPluginManager", "drawAllRunningPlugins" >>

NSteps == Len(DrawOrder)

QueueSteps == {"queueBorders", "queueSelectedRangeRing", "queueSelectedRect",
               "queueHoveringRect", "queueMousePath", "queueVoyages",
               "queueWormholes", "queuePlanets"}

FlushSteps == {"lineFlush", "planetFlush", "circleFlush", "rectFlush",
               "textFlush", "spriteFlush"}

\* Statements that call the state provider or the plugins, code outside the
\* renderer that may call back into it.
CallbackSteps == {"getLocationsAndChunks", "getPluginManager",
                  "drawAllRunningPlugins"}

\* The flushes with the text batcher flushed twice and the sprite batcher never.
FlushBatcherTextTwice(s) ==
  CASE s = "lineFlush"   -> "line"
    [] s = "planetFlush" -> "planet"
    [] s = "circleFlush" -> "circle"
    [] s = "rectFlush"   -> "rect"
    [] s = "textFlush"   -> "text"
    [] s = "spriteFlush" -> "text"

\* The batcher a flush statement flushes, lines 181-186.
FlushBatcher(s) ==
  CASE s = "lineFlush"   -> "line"
    [] s = "planetFlush" -> "planet"
    [] s = "circleFlush" -> "circle"
    [] s = "rectFlush"   -> "rect"
    [] s = "textFlush"   -> "text"
    [] s = "spriteFlush" -> "sprite"

\* Number of commands pending over all batchers of one object.
RECURSIVE SumLen(_, _)
SumLen(q, bs) ==
  IF bs = {} THEN 0
  ELSE LET b == CHOOSE x \in bs : TRUE
       IN Len(q[b]) + SumLen(q, bs \ {b})

TotalPending(q) == SumLen(q, Batchers)

\* A batcher's queue(): append one command.  Commands are numbered in the
\* order they are issued within the frame.
Enqueue(q, b) ==
  IF b = NoBatcher THEN q
  ELSE [q EXCEPT ![b] = Append(@, TotalPending(q) + 1)]

\* A batcher's flush(): the pending commands, submitted in queue order.
Submitted(q, b) == [k \in 1..Len(q[b]) |-> << b, q[b][k] >>]

\* A batcher's flush(), continued: the pending batch is cleared.
Flushed(q, b) == [q EXCEPT ![b] = << >>]

\* bgRenderer.drawChunks(chunks): drawn immediately, one layer entry a chunk.
ChunkLayers(n) == [k \in 1..n |-> << "bg", k >>]

\* Line 189 without the optional chaining: a call on an absent manager throws.
PluginHookUnguarded(pm) == IF pm THEN "called" ELSE "fault"

\* Line 189: gameUIManager.getPluginManager()?.drawAllRunningPlugins(ctx)
PluginHookOutcome(pm) == IF pm THEN "called" ELSE "skipped"

\* The plugins handed the primary context.
PluginCtxGl == "gl"

\* Line 189: the context handed to the plugins, this.overlay2dRenderer.ctx
PluginCtx == "overlay"

\* A statement of draw() calls a sub-component, which may throw.  The last
\* one calls nothing when getPluginManager() returned no plugin manager.
StepMayFault(s) ==
  s # "drawAllRunningPlugins" \/ PluginHookOutcome(pluginReturned) # "skipped"

\* --------------------------------------------------------------- lifecycle
\* Loop iterations begun so far, all objects together.
RECURSIVE SumFrames(_, _)
SumFrames(fc, is) ==
  IF is = {} THEN 0
  ELSE LET i == CHOOSE x \in is : TRUE
       IN fc[i] + SumFrames(fc, is \ {i})

TotalFrames == SumFrames(frameCount, Insts)

\* Line 83: the frame counter a constructed object starts with; prev is the
\* frame counter of the object constructed before it, if any.
ConstructFrameCountCarried(prev) == prev

ConstructFrameCount(prev) == 0

\* destroy() that cancels the callback and keeps the singleton reference.
DestroyEffectKeepsInstance(inst, sched, frid) ==
  [ instance  |-> inst,
    scheduled |-> IF inst # NoInst
                  THEN {c \in sched : c.id # frid[inst]}
                  ELSE sched ]

\* Lines 118-123, destroy(), as a function of the singleton reference, the
\* host scheduler's pending callbacks and the objects' frameRequestId fields.
DestroyEffect(inst, sched, frid) ==
  [ instance  |-> NoInst,
    scheduled |-> IF inst # NoInst
                  THEN {c \in sched : c.id # frid[inst]}
                  ELSE sched ]

\* Line 142: window.requestAnimationFrame(() => this.loop())
Request(i) == [id |-> nextRequestId, inst |-> i]

\* debug() that compares the remainder with 1.
DebugOffByOne(fc, interval) ==
  LET iv == IF interval = Undefined THEN DefaultInterval ELSE interval
  IN [value |-> (fc % iv) = 1, frameCount |-> fc]

\* Lines 193-195, debug(interval = 120), called on an object whose frame
\* counter is fc: the value returned and the frame counter it leaves.
Debug(fc, interval) ==
  LET iv == IF interval = Undefined THEN DefaultInterval ELSE interval
  IN [value |-> (fc % iv) = 0, frameCount |-> fc]

\* ------------------------------------------------------------------- Init
InitProgram ==
  /\ instance = NoInst
  /\ created = 0
  /\ frameCount = [i \in Insts |-> 0]
  /\ now = [i \in Insts |-> 0]
  /\ frameRequestId = [i \in Insts |-> Undefined]
  /\ nextRequestId = 1
  /\ scheduled = {}
  /\ cur = NoInst
  /\ phase = "idle"
  /\ step = 0
  /\ inInit = FALSE
  /\ snapshot = NoSnapshot
  /\ pluginReturned = FALSE
  /\ queue = [i \in Insts |-> EmptyQueues]
  /\ surface = EmptySurfaces
  /\ trace = << >>
  /\ hookCalls = << >>
  /\ planetNow = Undefined
  /\ destroyed = {}
  /\ faulted = {}
  /\ reinitialized = FALSE
  /\ dbgResult = [called |-> FALSE, interval |-> Undefined, value |-> FALSE]

Init ==
  /\ scenario \in Scenarios
  /\ InitProgram
  /\ dbgFrame = 0

\* ---------------------------------------------------------------- actions
\* initialize() that installs the object before the constructor runs setup().
InitializeInstallsFirst ==
  /\ cur = NoInst
  /\ created < scenario.insts
  /\ TotalFrames < MaxFrame
  /\ created' = created + 1
  /\ cur' = created + 1
  /\ instance' = created + 1
  /\ phase' = "constructed"
  /\ inInit' = TRUE
  /\ frameCount' = [frameCount EXCEPT ![created + 1] =
                      ConstructFrameCount(IF created = 0 THEN 0
                                          ELSE frameCount[created])]
  /\ \E t \in 0..scenario.clock : now' = [now EXCEPT ![created + 1] = t]
  /\ reinitialized' = (reinitialized \/ instance # NoInst)
  /\ UNCHANGED << scenario, frameRequestId, nextRequestId, scheduled,
                  step, queue, surface, destroyed, faulted,
                  frameVars, dbgVars >>

\* initialize() that cancels the pending callback of the installed object.
InitializeCancelsPrevious ==
  /\ cur = NoInst
  /\ created < scenario.insts
  /\ TotalFrames < MaxFrame
  /\ created' = created + 1
  /\ cur' = created + 1
  /\ phase' = "constructed"
  /\ inInit' = TRUE
  /\ frameCount' = [frameCount EXCEPT ![created + 1] =
                      ConstructFrameCount(IF created = 0 THEN 0
                                          ELSE frameCount[created])]
  /\ \E t \in 0..scenario.clock : now' = [now EXCEPT ![created + 1] = t]
  /\ reinitialized' = (reinitialized \/ instance # NoInst)
  /\ scheduled' = DestroyEffect(instance, scheduled, frameRequestId).scheduled
  /\ UNCHANGED << scenario, instance, frameRequestId, nextRequestId,
                  step, queue, surface, destroyed, faulted,
                  frameVars, dbgVars >>

\* initialize(), line 131, and the constructor, lines 74-86: a new object
\* with frameCount 0 and now = Date.now().  The constructor goes on with
\* setup(); the singleton reference is not touched yet.
Initialize ==
  /\ cur = NoInst
  /\ created < scenario.insts
  /\ TotalFrames < MaxFrame
  /\ created' = created + 1
  /\ cur' = created + 1
  /\ phase' = "constructed"
  /\ inInit' = TRUE
  /\ frameCount' = [frameCount EXCEPT ![created + 1] =
                      ConstructFrameCount(IF created = 0 THEN 0
                                          ELSE frameCount[created])]
  /\ \E t \in 0..scenario.clock : now' = [now EXCEPT ![created + 1] = t]
  /\ reinitialized' = (reinitialized \/ instance # NoInst)
  /\ UNCHANGED << scenario, instance, frameRequestId, nextRequestId, scheduled,
                  step, queue, surface, destroyed, faulted,
                  frameVars, dbgVars >>

\* The head of loop() counting every frame twice.
LoopHeadCountsTwice(i) ==
  /\ frameCount' = [frameCount EXCEPT ![i] = @ + 2]
  /\ \E t \in 0..scenario.clock : now' = [now EXCEPT ![i] = t]
  /\ phase' = "draw"
  /\ step' = 1
  /\ UNCHANGED frameVars

\* Lines 138-139, the head of loop(): count the frame, sample the time once.
LoopHead(i) ==
  /\ frameCount' = [frameCount EXCEPT ![i] = @ + 1]
  /\ \E t \in 0..scenario.clock : now' = [now EXCEPT ![i] = t]
  /\ phase' = "draw"
  /\ step' = 1
  /\ UNCHANGED frameVars

\* setup(), lines 93-115: the sub-components are constructed and loop() is
\* called synchronously, from inside the constructor.
SetupLoop ==
  /\ phase = "constructed"
  /\ LoopHead(cur)
  /\ UNCHANGED << scenario, instance, created, frameRequestId, nextRequestId,
                  scheduled, cur, inInit, queue, surface, destroyed, faulted,
                  reinitialized, dbgVars >>

\* The host scheduler fires a pending callback, () => this.loop().
CallbackFire ==
  /\ cur = NoInst
  /\ \E c \in scheduled :
       /\ TotalFrames < MaxFrame
       /\ scheduled' = scheduled \ {c}
       /\ cur' = c.inst
       /\ inInit' = FALSE
       /\ LoopHead(c.inst)
  /\ UNCHANGED << scenario, instance, created, frameRequestId, nextRequestId,
                  queue, surface, destroyed, faulted,
                  reinitialized, dbgVars >>

\* this.now passed as an argument with the clock read again at the call.
PlanetTimestampFresh(sampled, fresh) == fresh

\* Line 178: the timestamp queuePlanets is called with is the field this.now,
\* whatever the clock reads when the statement executes.
PlanetTimestamp(sampled, fresh) == sampled

\* The effect of the statement s of draw() on the queues, the surfaces and
\* the records of the frame; b is the batcher a queue call appends to and t
\* is what the clock reads when the statement executes.
StepEffect(s, b, t) ==
  /\ queue' =
       CASE s \in QueueSteps \ {"queuePlanets"} ->
              [queue EXCEPT ![cur] = Enqueue(@, b)]
         [] s = "queuePlanets" ->
              IF snapshot.locations = 0 THEN queue
              ELSE [queue EXCEPT ![cur] = Enqueue(@, b)]
         [] s \in FlushSteps ->
              [queue EXCEPT ![cur] = Flushed(@, FlushBatcher(s))]
         [] OTHER -> queue
  /\ surface' =
       CASE s = "overlayClear" -> [surface EXCEPT !["overlay"] = << >>]
         [] s = "glClear" -> [surface EXCEPT !["gl"] = << >>]
         [] s = "drawChunks" ->
              [surface EXCEPT !["gl"] = @ \o ChunkLayers(snapshot.chunks)]
         [] s = "drawMiner" ->
              [surface EXCEPT !["overlay"] = Append(@, << "miner", 0 >>)]
         [] s \in FlushSteps ->
              [surface EXCEPT !["gl"] = @ \o Submitted(queue[cur], FlushBatcher(s))]
         [] s = "drawAllRunningPlugins"
              /\ PluginHookOutcome(pluginReturned) = "called" ->
              [surface EXCEPT ![PluginCtx] = Append(@, << "plugin", 0 >>)]
         [] OTHER -> surface
  /\ hookCalls' =
       IF s = "drawAllRunningPlugins" /\ PluginHookOutcome(pluginReturned) = "called"
       THEN Append(hookCalls, PluginCtx) ELSE hookCalls
  /\ planetNow' = IF s = "queuePlanets" THEN PlanetTimestamp(now[cur], t)
                   ELSE planetNow

\* One statement of draw(), lines 152-189, runs to completion.
DrawStep ==
  /\ phase = "draw"
  /\ LET s == DrawOrder[step] IN
       /\ ~(s = "drawAllRunningPlugins"
              /\ PluginHookOutcome(pluginReturned) = "fault")
       /\ IF s = "getLocationsAndChunks"
          THEN snapshot' \in [locations : 0..scenario.locations,
                              chunks : 0..scenario.chunks]
          ELSE snapshot' = snapshot
       /\ IF s = "getPluginManager"
          THEN pluginReturned' \in BOOLEAN
          ELSE pluginReturned' = pluginReturned
       /\ \E b \in Batchers \cup {NoBatcher}, t \in 0..scenario.clock :
            /\ b # NoBatcher =>
                 /\ s \in QueueSteps
                 /\ TotalPending(queue[cur]) < scenario.cmds
            /\ StepEffect(s, b, t)
       /\ trace' = Append(trace, s)
  /\ IF step = NSteps
     THEN phase' = "drawn" /\ step' = 0
     ELSE phase' = "draw" /\ step' = step + 1
  /\ UNCHANGED << scenario, instance, created, frameCount, now, frameRequestId,
                  nextRequestId, scheduled, cur, inInit, destroyed, faulted,
                  reinitialized, dbgVars >>

\* The records of a draw phase end with the call of draw().
EndFrame ==
  /\ snapshot' = NoSnapshot
  /\ pluginReturned' = FALSE
  /\ trace' = << >>
  /\ hookCalls' = << >>
  /\ planetNow' = Undefined

\* A throwing statement of draw() caught and skipped: draw() goes on with
\* the statement after it.
DrawFaultSwallowed ==
  /\ phase = "draw"
  /\ StepMayFault(DrawOrder[step])
  /\ faulted' = faulted \cup {cur}
  /\ IF step = NSteps
     THEN phase' = "drawn" /\ step' = 0
     ELSE phase' = "draw" /\ step' = step + 1
  /\ UNCHANGED << scenario, instance, created, frameCount, now, frameRequestId,
                  nextRequestId, scheduled, cur, inInit, queue, surface,
                  destroyed, reinitialized, frameVars, dbgVars >>

\* initialize() that clears the singleton reference when the constructor
\* throws.
DrawFaultResetsSingleton ==
  /\ phase = "draw"
  /\ StepMayFault(DrawOrder[step])
  /\ faulted' = faulted \cup {cur}
  /\ instance' = IF inInit THEN NoInst ELSE instance
  /\ cur' = NoInst
  /\ phase' = "idle"
  /\ step' = 0
  /\ inInit' = FALSE
  /\ EndFrame
  /\ UNCHANGED << scenario, created, frameCount, now, frameRequestId,
                  nextRequestId, scheduled, queue, surface, destroyed,
                  reinitialized, dbgVars >>

\* The sub-component called by the next statement of draw() throws: the
\* exception leaves draw() and loop() (no handler anywhere); line 142 is not
\* reached, and when loop() was called from the constructor, initialize()
\* throws before line 132.
DrawFault ==
  /\ phase = "draw"
  /\ StepMayFault(DrawOrder[step])
  /\ faulted' = faulted \cup {cur}
  /\ cur' = NoInst
  /\ phase' = "idle"
  /\ step' = 0
  /\ inInit' = FALSE
  /\ EndFrame
  /\ UNCHANGED << scenario, instance, created, frameCount, now, frameRequestId,
                  nextRequestId, scheduled, queue, surface, destroyed,
                  reinitialized, dbgVars >>

\* The tail of loop() calling requestAnimationFrame twice.
LoopRescheduleTwice ==
  /\ phase = "drawn"
  /\ frameRequestId' = [frameRequestId EXCEPT ![cur] = nextRequestId + 1]
  /\ scheduled' = scheduled \cup {Request(cur),
                                  [id |-> nextRequestId + 1, inst |-> cur]}
  /\ nextRequestId' = nextRequestId + 2
  /\ IF inInit
     THEN phase' = "scheduled" /\ cur' = cur
     ELSE phase' = "idle" /\ cur' = NoInst
  /\ EndFrame
  /\ UNCHANGED << scenario, instance, created, frameCount, now, step, inInit,
                  queue, surface, destroyed, faulted,
                  reinitialized, dbgVars >>

\* loop() that ends after draw() without requesting the next frame.
LoopRescheduleNever ==
  /\ phase = "drawn"
  /\ IF inInit
     THEN phase' = "scheduled" /\ cur' = cur
     ELSE phase' = "idle" /\ cur' = NoInst
  /\ EndFrame
  /\ UNCHANGED << scenario, instance, created, frameCount, now, step, inInit,
                  frameRequestId, scheduled, nextRequestId,
                  queue, surface, destroyed, faulted,
                  reinitialized, dbgVars >>

\* Line 142, the tail of loop(): schedule the next iteration and keep its id.
LoopReschedule ==
  /\ phase = "drawn"
  /\ frameRequestId' = [frameRequestId EXCEPT ![cur] = nextRequestId]
  /\ scheduled' = scheduled \cup {Request(cur)}
  /\ nextRequestId' = nextRequestId + 1
  /\ IF inInit
     THEN phase' = "scheduled" /\ cur' = cur
     ELSE phase' = "idle" /\ cur' = NoInst
  /\ EndFrame
  /\ UNCHANGED << scenario, instance, created, frameCount, now, step, inInit,
                  queue, surface, destroyed, faulted,
                  reinitialized, dbgVars >>

\* initialize(), lines 132-134: the constructor has returned; install.
InitializeInstall ==
  /\ phase = "scheduled"
  /\ instance' = cur
  /\ cur' = NoInst
  /\ phase' = "idle"
  /\ inInit' = FALSE
  /\ UNCHANGED << scenario, created, frameCount, now, frameRequestId,
                  nextRequestId, scheduled, step, queue, surface, destroyed,
                  faulted, reinitialized, frameVars, dbgVars >>

\* destroy(), lines 118-123: called between two callbacks, or by code that
\* the state provider or a plugin runs while the draw phase calls it.
Destroy ==
  /\ \/ phase = "idle"
     \/ /\ phase = "draw"
        /\ DrawOrder[step] \in CallbackSteps
        /\ DrawOrder[step] = "drawAllRunningPlugins" =>
             PluginHookOutcome(pluginReturned) = "called"
  /\ LET d == DestroyEffect(instance, scheduled, frameRequestId) IN
       /\ instance' = d.instance
       /\ scheduled' = d.scheduled
  /\ destroyed' = IF instance # NoInst THEN destroyed \cup {instance} ELSE destroyed
  /\ UNCHANGED << scenario, created, frameCount, now, frameRequestId,
                  nextRequestId, cur, phase, step, inInit, queue, surface,
                  faulted, reinitialized, frameVars, dbgVars >>

Next ==
  \/ Initialize
  \/ SetupLoop
  \/ CallbackFire
  \/ DrawStep
  \/ DrawFault
  \/ LoopReschedule
  \/ InitializeInstall
  \/ Destroy

Spec == Init /\ [][Next]_vars

\* ------------------------------------------------------------------ debug
\* debug() is a function of the frame counter and the interval alone: it is
\* applied to every frame counter an object can have reached.
InitDebug ==
  /\ scenario = CHOOSE sc \in Scenarios : sc.name = "frame"
  /\ InitProgram
  /\ dbgFrame \in 0..MaxDebugFrame

\* renderer.debug(interval), or renderer.debug() when interval is Undefined.
DebugCall ==
  /\ \E interval \in {Undefined, DefaultInterval} \cup (1..MaxInterval) :
       LET r == Debug(dbgFrame, interval) IN
         /\ dbgResult' = [called |-> TRUE, interval |-> interval, value |-> r.value]
         /\ dbgFrame' = r.frameCount
  /\ UNCHANGED << scenario, instance, created, frameCount, now, frameRequestId,
                  nextRequestId, scheduled, cur, phase, step, inInit, queue,
                  surface, destroyed, faulted, reinitialized,
                  frameVars >>

NextDebug == DebugCall

SpecDebug == InitDebug /\ [][NextDebug]_vars

\* --------------------------------------------------------------- liveness
\* Objects that are never destroyed and whose draw phases never throw,
\* drawing empty scenes at one instant.
LiveScenario ==
  [name |-> "live", insts |-> MaxInst, cmds |-> 0, clock |-> 0,
   locations |-> 0, chunks |-> 0]

InitLive ==
  /\ scenario = LiveScenario
  /\ InitProgram
  /\ dbgFrame = 0

NextLive ==
  \/ Initialize
  \/ SetupLoop
  \/ CallbackFire
  \/ DrawStep
  \/ LoopReschedule
  \/ InitializeInstall

\* JavaScript runs a handler to completion: the executing statement of the
\* constructor, of loop() and of draw() is eventually executed.  The host
\* scheduler runs every pending animation-frame callback at a later frame.
Fairness ==
  /\ WF_vars(SetupLoop)
  /\ WF_vars(DrawStep)
  /\ WF_vars(LoopReschedule)
  /\ WF_vars(InitializeInstall)
  /\ \A i \in Insts : WF_vars(CallbackFire /\ cur' = i)

SpecLive == InitLive /\ [][NextLive]_vars /\ Fairness

\* ----------------------------------------------------------------- claims
IsPrefix(a, b) == Len(a) <= Len(b) /\ \A k \in 1..Len(a) : a[k] = b[k]

IsFlush(s) == s \in FlushSteps

\* Position of the statement s in the trace of the draw phase (0 = absent).
Pos(s) ==
  IF \E k \in 1..Len(trace) : trace[k] = s
  THEN CHOOSE k \in 1..Len(trace) : trace[k] = s
  ELSE 0

Count(s) == Cardinality({k \in 1..Len(trace) : trace[k] = s})

FlushOrder ==
  << "lineFlush", "planetFlush", "circleFlush", "rectFlush", "textFlush",
     "spriteFlush" >>

\* C1: in a draw phase the flushes are issued in the order line, planet
\* manager, circle, rect, text, sprite, none twice, and a draw phase that
\* has run to completion has issued all six, whatever the scene snapshot
\* and whatever was queued.
FlushOrderFixed ==
  /\ IsPrefix(SelectSeq(trace, IsFlush), FlushOrder)
  /\ phase = "drawn" => SelectSeq(trace, IsFlush) = FlushOrder

\* A completed draw phase of an empty scene in which nothing was queued:
\* the six flushes were issued and submitted nothing.
FlushOrderWitness ==
  /\ phase = "drawn"
  /\ snapshot = NoSnapshot
  /\ surface["gl"] = << >>
  /\ SelectSeq(trace, IsFlush) = FlushOrder

PipelineOrder ==
  << "setProjectionMatrix", "overlayClear", "glClear",
     "getLocationsAndChunks", "drawChunks",
     "queueBorders", "queueSelectedRangeRing", "queueSelectedRect",
     "queueHoveringRect", "queueMousePath",
     "drawMiner",
     "queueVoyages", "queueWormholes", "queuePlanets",
     "lineFlush", "planetFlush", "circleFlush", "rectFlush", "textFlush",
     "spriteFlush",
     "getPluginManager", "drawAllRunningPlugins" >>

\* C2: the statements a draw phase has executed are always an initial part
\* of the fixed pipeline, and the whole pipeline once the phase is complete;
\* both clears come before every queue and draw call, and every queue call
\* before every flush.
DrawSequenceFixed ==
  /\ IsPrefix(trace, PipelineOrder)
  /\ phase = "drawn" => trace = PipelineOrder
  /\ \A i, j \in 1..Len(trace) :
       /\ (trace[i] \in {"overlayClear", "glClear"}
             /\ trace[j] \in QueueSteps \cup FlushSteps
                              \cup {"drawChunks", "drawMiner", "drawAllRunningPlugins"})
            => i < j
       /\ (trace[i] \in QueueSteps /\ trace[j] \in FlushSteps) => i < j

\* A completed draw phase of a scene with a chunk and a location, in which
\* the managers queued commands.
DrawSequenceWitness ==
  /\ phase = "drawn"
  /\ Len(trace) = 22
  /\ snapshot.chunks = 1 /\ snapshot.locations = 1
  /\ \E k \in 1..Len(surface["gl"]) : surface["gl"][k][1] \in Batchers

\* A callback of the object i is pending with the host scheduler under the
\* id the object holds.
LoopActive(i) == \E c \in scheduled : c.inst = i /\ c.id = frameRequestId[i]

\* C3: once destroy() has been called on the installed object, that object
\* begins no further loop iteration: its frame counter never changes again.
NoIterationAfterDestroy ==
  [][\A i \in destroyed : frameCount'[i] = frameCount[i]]_vars

\* C4: destroy() leaves the singleton reference null; with no object
\* installed it changes nothing; a second destroy() right after the first
\* would change nothing either.
DestroyIdempotent ==
  [][Destroy =>
       /\ instance' = NoInst
       /\ instance = NoInst => UNCHANGED vars
       /\ DestroyEffect(instance', scheduled', frameRequestId')
            = [instance |-> instance', scheduled |-> scheduled']]_vars

\* destroy() has cancelled the loop of an installed object and nothing is
\* installed: the state a second destroy() is called in.
DestroyIdempotentWitness ==
  /\ phase = "idle"
  /\ instance = NoInst
  /\ destroyed # {}
  /\ scheduled = {}

\* C5: an object under construction by initialize() is a new one, never
\* destroyed and not the installed one, and its frame counter starts at 0
\* whatever the earlier objects counted; when initialize() installs it, it
\* has counted its own first iteration only and its next callback is pending.
FreshAfterReinitialize ==
  /\ phase = "constructed" =>
       /\ frameCount[cur] = 0
       /\ cur \notin destroyed
       /\ cur # instance
  /\ phase = "scheduled" =>
       /\ frameCount[cur] = 1
       /\ cur \notin destroyed
       /\ cur # instance
       /\ LoopActive(cur)

\* initialize() after destroy(): the destroyed object had counted two frames
\* or more, the installed one is another object, on its first frame, with its
\* callback pending.
FreshAfterReinitializeWitness ==
  /\ phase = "idle"
  /\ instance # NoInst
  /\ instance \notin destroyed
  /\ \E d \in destroyed : frameCount[d] >= 2
  /\ frameCount[instance] = 1
  /\ LoopActive(instance)

\* C6, as stated: whenever a loop iteration of an object executes, the first
\* one included, the singleton reference designates that object.
InstalledWhileIterating ==
  phase \in {"draw", "drawn"} => instance = cur

\* C6, amended: the first loop iteration runs inside the constructor, before
\* the object is installed: from the construction to the scheduling of the
\* second iteration the singleton reference does not designate the object;
\* initialize() then installs it, with one frame counted and its callback
\* pending.
InstalledAfterFirstIteration ==
  /\ [](inInit => instance # cur)
  /\ [][phase = "scheduled" /\ phase' # "scheduled" =>
          /\ instance' = cur
          /\ frameCount'[cur] = 1
          /\ \E c \in scheduled' : c.inst = cur /\ c.id = frameRequestId'[cur]]_vars

\* The first draw phase of a new object is complete and the next iteration
\* scheduled, and the object is not installed yet.
InstalledAfterFirstIterationWitness ==
  /\ phase = "scheduled"
  /\ inInit
  /\ frameCount[cur] = 1
  /\ LoopActive(cur)
  /\ instance # cur

\* The interval debug() compares with: the argument, or 120 without one.
EffectiveInterval == IF dbgResult.interval = Undefined THEN 120 ELSE dbgResult.interval

\* C7: debug(interval) returns true exactly when the frame counter is a
\* multiple of the interval (of 120 without an argument: on the frames 0, 120,
\* 240), and leaves the frame counter as it was.
DebugIffMultiple ==
  /\ [](dbgResult.called =>
          (dbgResult.value <=>
             \E k \in 0..MaxDebugFrame : dbgFrame = k * EffectiveInterval))
  /\ []((dbgResult.called /\ dbgResult.interval = Undefined /\ dbgFrame <= 241) =>
          (dbgResult.value <=> dbgFrame \in {0, 120, 240}))
  /\ [][dbgFrame' = dbgFrame]_vars

\* debug() without an argument has returned true on the frame 240.
DebugIffMultipleWitness ==
  /\ dbgResult.called
  /\ dbgResult.interval = Undefined
  /\ dbgFrame = 240
  /\ dbgResult.value

\* C8, as stated: the direct draw on the overlay surface (the miner
\* indicator) comes after the sprite flush and before the plugin hook.
MinerDrawnAfterSpriteFlush ==
  phase = "drawn" =>
    /\ Pos("spriteFlush") < Pos("drawMiner")
    /\ Pos("drawMiner") < Pos("drawAllRunningPlugins")

\* Stacking rank of a layer entry of the primary surface.
Rank(l) ==
  CASE l = "bg" -> 0
    [] l = "line" -> 1
    [] l = "planet" -> 2
    [] l = "circle" -> 3
    [] l = "rect" -> 4
    [] l = "text" -> 5
    [] l = "sprite" -> 6
    [] OTHER -> 7

\* C8, amended: after a complete draw phase the primary surface holds the
\* frame's background chunks, then the commands of the line, planet, circle,
\* rect, text and sprite batchers, batcher by batcher and in queue order
\* within a batcher, whatever the order they were queued in, and nothing
\* else; the overlay surface, which lies above the primary one, holds the
\* miner indicator and then the plugin output when plugins were drawn.  The
\* miner indicator is drawn before every flush, between the mouse path and
\* the voyages, and before the plugin hook.
LayerOrder ==
  phase = "drawn" =>
    LET gl == surface["gl"] IN
      /\ \A i, j \in 1..Len(gl) :
           i < j => \/ Rank(gl[i][1]) < Rank(gl[j][1])
                    \/ gl[i][1] = gl[j][1] /\ gl[i][2] < gl[j][2]
      /\ \A i \in 1..Len(gl) : Rank(gl[i][1]) <= 6
      /\ Cardinality({i \in 1..Len(gl) : gl[i][1] = "bg"}) = snapshot.chunks
      /\ surface["overlay"] =
           << << "miner", 0 >> >> \o
           (IF pluginReturned THEN << << "plugin", 0 >> >> ELSE << >>)
      /\ Pos("queueMousePath") < Pos("drawMiner")
      /\ Pos("drawMiner") < Pos("queueVoyages")
      /\ Pos("drawMiner") < Pos("lineFlush")
      /\ Pos("drawMiner") < Pos("drawAllRunningPlugins")

\* A complete draw phase with a background chunk, plugins, and two commands
\* of which the one queued later lies lower in the stack.
LayerOrderWitness ==
  /\ phase = "drawn"
  /\ snapshot.chunks = 1
  /\ pluginReturned
  /\ LET gl == surface["gl"] IN
       \E i, j \in 1..Len(gl) :
         /\ i < j
         /\ gl[i][1] \in Batchers /\ gl[j][1] \in Batchers
         /\ gl[i][2] > gl[j][2]

\* C9: a completed draw phase has called the plugin hook once, as its last
\* statement, after the sprite flush, with the context of the overlay
\* surface, when the state provider returned a plugin manager, and not at all
\* when it returned none; in that case the last statement cannot fault.  A
\* completed draw phase is followed by the scheduling of the next iteration.
PluginHookLast ==
  /\ [](phase = "drawn" =>
          /\ hookCalls = IF pluginReturned THEN << "overlay" >> ELSE << >>
          /\ trace[Len(trace)] = "drawAllRunningPlugins"
          /\ Count("drawAllRunningPlugins") = 1
          /\ 0 < Pos("spriteFlush")
          /\ Pos("spriteFlush") < Pos("drawAllRunningPlugins"))
  /\ [][(/\ phase = "draw"
         /\ DrawOrder[step] = "drawAllRunningPlugins"
         /\ ~pluginReturned
         /\ phase' # "draw") => phase' = "drawn" /\ hookCalls' = << >>]_vars
  /\ [][(phase = "drawn" /\ phase' # "drawn") =>
          \E c \in scheduled' \ scheduled : c.inst = cur]_vars

\* A draw phase has completed with no plugin manager and no hook call.
PluginHookLastWitness ==
  /\ phase = "drawn"
  /\ ~pluginReturned
  /\ hookCalls = << >>
  /\ Len(trace) = 22

\* Index in the draw phase of the first statement that queues.
FirstQueueStep == CHOOSE k \in 1..NSteps :
                    /\ DrawOrder[k] \in QueueSteps
                    /\ \A j \in 1..(k - 1) : DrawOrder[j] \notin QueueSteps

\* C10: the batchers of an object hold no pending command when a draw phase
\* of the object is complete, while its next iteration is awaited, and in
\* the next draw phase up to its first queue call.
NoLeakAcrossFrames ==
  \A i \in Insts :
    ( \/ cur = i /\ phase \in {"drawn", "scheduled"}
      \/ cur = i /\ phase = "draw" /\ step <= FirstQueueStep
      \/ cur # i /\ \E c \in scheduled : c.inst = i )
    => queue[i] = EmptyQueues

\* A draw phase is complete in which commands were queued to two batchers,
\* the sprite batcher among them, and nothing is pending.
NoLeakAcrossFramesWitness ==
  /\ phase = "drawn"
  /\ queue[cur] = EmptyQueues
  /\ LET gl == surface["gl"] IN
       \E i, j \in 1..Len(gl) :
         /\ gl[i][1] \in Batchers \ {"sprite"}
         /\ gl[j][1] = "sprite"

\* Pending callbacks of the object i.
PendingOf(i) == {c \in scheduled : c.inst = i}

\* C11: an object never has more than one loop callback pending, and a
\* pending callback of an object is the one its frameRequestId names, the
\* one it scheduled last.  A callback is scheduled for an object only by
\* the object's executing iteration, one per iteration, when no callback of
\* the object is pending (the previous one has fired or there was none),
\* and frameRequestId changes only to name the callback just scheduled.
SingleOutstandingCallback ==
  /\ [](\A i \in Insts :
          /\ Cardinality(PendingOf(i)) <= 1
          /\ \A c \in PendingOf(i) : c.id = frameRequestId[i])
  /\ [][\A c \in scheduled' \ scheduled :
          /\ c.inst = cur
          /\ phase = "drawn"
          /\ PendingOf(c.inst) = {}
          /\ scheduled' \ scheduled = {c}
          /\ frameRequestId'[c.inst] = c.id
          /\ \A d \in scheduled : d.id < c.id]_vars
  /\ [][\A i \in Insts :
          frameRequestId'[i] # frameRequestId[i] =>
            [id |-> frameRequestId'[i], inst |-> i] \in scheduled' \ scheduled]_vars

\* An object in its second iteration or later awaits its one callback.
SingleOutstandingCallbackWitness ==
  \E i \in Insts :
    /\ frameCount[i] >= 2
    /\ cur = NoInst
    /\ Cardinality(PendingOf(i)) = 1
    /\ LoopActive(i)

\* C12: as long as initialize() has only been called with no object
\* installed (destroy() first), at most one loop callback is pending in the
\* whole process, and outside initialize() a pending callback belongs to the
\* object the singleton reference designates.
SingleLoopUnderDiscipline ==
  ~reinitialized =>
    /\ Cardinality(scheduled) <= 1
    /\ phase # "scheduled" => \A c \in scheduled : c.inst = instance

\* C13: initialize() called while an object is installed replaces the
\* singleton reference and cancels nothing: a pending callback leaves the
\* host scheduler only by firing, which starts an iteration of its object,
\* or by a destroy() of the installed object that scheduled it.  The
\* callback of a replaced object is therefore out of reach of destroy() and
\* its loop goes on beside the loop of the new object.
OrphanedLoopKeepsRunning ==
  /\ [][\A c \in scheduled \ scheduled' :
          \/ /\ cur = NoInst
             /\ cur' = c.inst
             /\ phase' = "draw"
             /\ frameCount'[c.inst] = frameCount[c.inst] + 1
          \/ /\ instance = c.inst
             /\ frameRequestId[instance] = c.id
             /\ instance' = NoInst
             /\ scheduled \ scheduled' = {c}]_vars
  /\ [][(phase = "scheduled" /\ phase' = "idle") =>
          /\ instance' = cur
          /\ scheduled' = scheduled]_vars
  /\ [][\A i \in Insts :
          (/\ PendingOf(i) # {}
           /\ i # instance
           /\ i # cur
           /\ PendingOf(i) \cap scheduled' = {}) => cur' = i]_vars

\* Two objects were initialized with no destroy() between them; a later
\* destroy() took the second object's callback, and the first object, never
\* destroyed, has iterated again and awaits its next callback.
OrphanedLoopKeepsRunningWitness ==
  /\ reinitialized
  /\ instance = NoInst
  /\ cur = NoInst
  /\ 2 \in destroyed
  /\ 1 \notin destroyed
  /\ PendingOf(2) = {}
  /\ PendingOf(1) # {}
  /\ frameCount[1] >= 2

\* C14: the field now of an object is written once per loop iteration, at
\* the head of the iteration (and once by the constructor); no statement of
\* the draw phase, and nothing else, changes it, and the timestamp that
\* queuePlanets is called with is the value sampled at the head of the same
\* iteration.
TimestampCoherent ==
  /\ []((phase \in {"draw", "drawn"} /\ Pos("queuePlanets") > 0)
          => planetNow = now[cur])
  /\ [][phase = "draw" => now' = now]_vars
  /\ [][\A i \in Insts :
          now'[i] # now[i] =>
            \/ created' = i /\ created = i - 1
            \/ cur' = i /\ phase # "draw" /\ phase' = "draw" /\ step' = 1]_vars

\* A draw phase of a later iteration is complete; the clock read 1 at its
\* head and queuePlanets was called with 1.
TimestampCoherentWitness ==
  /\ phase = "drawn"
  /\ ~inInit
  /\ now[cur] = 1
  /\ planetNow = 1
  /\ Pos("queuePlanets") > 0

\* C15: the frame counter of an object is 0 when the constructor has run,
\* goes up by exactly one when an iteration of the object begins, before any
\* statement of its draw phase, and is changed by nothing else; so it is 1
\* throughout the first draw phase, the one initialize() runs, and greater
\* by one in each later draw phase.
FrameCountMonotonic ==
  /\ [](phase = "constructed" => frameCount[cur] = 0)
  /\ []((inInit /\ phase \in {"draw", "drawn", "scheduled"})
          => frameCount[cur] = 1)
  /\ []((~inInit /\ phase \in {"draw", "drawn"}) => frameCount[cur] >= 2)
  /\ [][\A i \in Insts :
          frameCount'[i] # frameCount[i] =>
            /\ frameCount'[i] = frameCount[i] + 1
            /\ cur' = i
            /\ phase # "draw" /\ phase' = "draw" /\ step' = 1
            /\ trace' = << >>]_vars
  /\ [][(phase \notin {"draw", "drawn"} /\ phase' = "draw") =>
          frameCount'[cur'] = frameCount[cur'] + 1]_vars
  /\ [][(phase \in {"draw", "drawn"}) => frameCount' = frameCount]_vars

\* The third draw phase of an object is under way and its counter is 3.
FrameCountMonotonicWitness ==
  /\ phase = "draw"
  /\ ~inInit
  /\ step > 1
  /\ frameCount[cur] = 3

\* C16: when the sub-component called by a statement of draw() throws, the
\* draw phase ends there: it is never completed, no later statement of it
\* executes (batchers keep what they hold, nothing more reaches a surface,
\* the plugin hook is not called), and nothing is retried or scheduled.  A
\* draw phase is left in no other way than by completing its last statement
\* or by such a throw.
FaultAbortsFrame ==
  /\ [][faulted' # faulted =>
          /\ faulted' = faulted \cup {cur}
          /\ phase = "draw" /\ phase' = "idle"
          /\ cur # NoInst /\ cur' = NoInst
          /\ hookCalls = << >>
          /\ \A k \in step..NSteps : Count(DrawOrder[k]) = 0
          /\ queue' = queue
          /\ surface' = surface
          /\ scheduled' = scheduled
          /\ frameRequestId' = frameRequestId
          /\ frameCount' = frameCount
          /\ instance' = instance]_vars
  /\ [][(phase = "draw" /\ phase' # "draw") =>
          \/ /\ phase' = "drawn"
             /\ step = NSteps
             /\ trace' = DrawOrder
             /\ faulted' = faulted
          \/ /\ phase' = "idle"
             /\ faulted' = faulted \cup {cur}
             /\ cur \notin faulted]_vars

\* An object's draw phase threw after commands were queued and before they
\* were flushed: the commands are still in its batchers and no callback of
\* the object is pending.
FaultAbortsFrameWitness ==
  /\ phase = "idle"
  /\ 1 \in faulted
  /\ queue[1] # EmptyQueues
  /\ PendingOf(1) = {}

\* C17: an object whose draw phase threw in a frame started by the host
\* scheduler, and which was not destroyed, still has its loop: its next
\* iteration is pending or running.
FaultedFrameIsFollowed ==
  \A i \in faulted :
    (i \notin destroyed /\ frameCount[i] >= 2) =>
      (PendingOf(i) # {} \/ cur = i)

\* C19: when the first draw phase of a new object, the one that runs inside
\* initialize(), throws, initialize() ends without touching the singleton
\* reference (an object installed before stays installed, and the new one
\* is never installed) and without a callback scheduled for the new object,
\* then or later.
InitializeFaultNeutral ==
  /\ [][(faulted' # faulted /\ inInit) =>
          /\ instance' = instance
          /\ instance # cur
          /\ scheduled' = scheduled
          /\ PendingOf(cur) = {}
          /\ frameRequestId[cur] = Undefined
          /\ phase' = "idle" /\ cur' = NoInst /\ ~inInit']_vars
  /\ [](\A i \in faulted :
          frameCount[i] = 1 =>
            /\ instance # i
            /\ cur # i
            /\ PendingOf(i) = {}
            /\ frameRequestId[i] = Undefined)

\* The constructor of a second object threw in its first draw phase while
\* the first object was installed: the first object is still installed and
\* its callback is still pending.
InitializeFaultNeutralWitness ==
  /\ created = 2
  /\ 2 \in faulted
  /\ frameCount[2] = 1
  /\ instance = 1
  /\ PendingOf(1) # {}
  /\ phase = "idle"

\* C18: for an object that is never destroyed and whose draw phases never
\* throw, under a host scheduler that runs every pending callback, every
\* iteration that has begun ends with the callback of the next iteration
\* pending, and every pending callback is followed by a further iteration
\* of its object (as long as the iterations explored are not used up).
LoopKeepsIterating ==
  /\ \A i \in Insts :
       (cur = i /\ phase = "draw") ~> (cur # i /\ LoopActive(i))
  /\ \A i \in Insts : \A k \in 0..(MaxFrame - 1) :
       (PendingOf(i) # {} /\ frameCount[i] = k /\ TotalFrames < MaxFrame)
         ~> (frameCount[i] = k + 1 \/ TotalFrames >= MaxFrame)

\* An object has run as many iterations as are explored, one after the
\* other, and the callback of yet another one is pending.
LoopKeepsIteratingWitness ==
  /\ frameCount[1] = MaxFrame
  /\ cur = NoInst
  /\ LoopActive(1)
  /\ destroyed = {}
  /\ faulted = {}

====
